---- MODULE Spec2Model ----
(***************************************************************************)
(* Model of the event-dispatch and connection-resilience core of           *)
(* pyMeticulous (meticulous/api.py): EventThrottle, ApiOptions handler     *)
(* registration, Api.connect_to_socket / disconnect_socket, the Socket.IO   *)
(* emitters (send_action_socketio and its allowlist), and the history      *)
(* endpoints: get_shot_log with its zstd / JSON decoding,                  *)
(* get_last_shot_log, get_current_shot and get_last_shot.                  *)
(* EventThrottle.should_process is also modelled statement by statement,   *)
(* for two threads sharing a gate and for one thread under a fair clock.   *)
(*                                                                         *)
(* Clock readings and throttle intervals are counted in ticks of 0.25 s,   *)
(* backoff durations in ticks of 0.5 s; on these grids the float           *)
(* subtraction and doubling of the code are exact.                         *)
(***************************************************************************)
EXTENDS Integers, Sequences, FiniteSets, TLC

VARIABLES
    options,      \* the ApiOptions object: callbacks set and throttle
    constructed,  \* TRUE once Api.__init__ has run
    registrations,\* the sio.on(event, handler) calls made, in order
    handlers,     \* sio handlers: event name -> registered handler
    gates,        \* EventThrottle objects: interval and _last_emit
    trace,        \* calls made so far to a gate or to a registered handler
    received,     \* invocations of user callbacks so far: slot and payload
    pc,           \* position of the caller of connect_to_socket
    retries,      \* connect_to_socket argument
    backoff,      \* connect_to_socket argument
    max_backoff,  \* connect_to_socket argument
    attempt,      \* connect_to_socket local: failed attempts so far
    delay,        \* connect_to_socket local: next sleep
    sleeps,       \* durations passed to time.sleep by the current call
    attempts,     \* calls of sio.connect made by the current call
    connected,    \* the sio session is connected
    outcome,      \* how the last connect_to_socket call ended
    lastDisc,     \* the last disconnect_socket call since the last connect call
    discAt,       \* Len(trace) when a connected session was last disconnected
    sendLog,      \* calls of send_action_socketio so far and how each ended
    emitted,      \* frames handed to sio.emit so far
    rest,         \* the last REST call: what it was sent and what it returned
    clock,        \* what time.time() reads now, and whether it was set back
    threads       \* where each thread stands inside should_process

vars == <<options, constructed, registrations, handlers, gates, trace,
          received, pc, retries, backoff, max_backoff, attempt, delay, sleeps,
          attempts, connected, outcome, lastDisc, discAt, sendLog, emitted,
          rest, clock, threads>>

throttleVars == <<options, constructed, registrations, handlers, gates, trace,
                  received>>
connVars == <<pc, retries, backoff, max_backoff, attempt, delay, sleeps,
              attempts, connected, outcome, lastDisc, discAt>>
raceVars == <<clock, threads>>
otherVars == <<sendLog, emitted, rest, raceVars>>

----------------------------------------------------------------------------
(* Bounds *)

MaxClock == 4       \* time.time() reads 0..MaxClock
MaxCalls == 3       \* calls recorded in trace
MaxInterval == 2    \* scalar throttle intervals are -1..MaxInterval
MaxRetries == 4     \* retries is -1..MaxRetries
MaxBackoff == 8     \* backoff and max_backoff are -1..MaxBackoff
MaxSends == 2       \* calls of send_action_socketio, and frames emitted
MaxDocLen == 2      \* items of a shot-log document
MaxListLen == 2     \* entries of a listing of date buckets or of shot files

Clock == 0..MaxClock
Intervals == -1..MaxInterval

Min(a, b) == IF a <= b THEN a ELSE b
Max(a, b) == IF a >= b THEN a ELSE b

----------------------------------------------------------------------------
(* ApiOptions: the callback slots and the event name of each *)

Slots == <<"onStatus", "onSensors", "onTemperatureSensors", "onCommunication",
           "onActuators", "onMachineInfo", "onButton", "onSettingsChange",
           "onNotification", "onProfileChange", "onHeaterStatus", "onOSUpdate">>

SlotSet == {Slots[i] : i \in 1..Len(Slots)}

NoEvent == "-"

\* __post_init__: the _socketio_event of the slot's payload type; a slot whose
\* payload type carries none (Dict) gets no event name.
EventNameOf(slot) ==
    CASE slot = "onStatus" -> "status"
      [] slot = "onSensors" -> "sensors"
      [] slot = "onTemperatureSensors" -> "sensors"
      [] slot = "onCommunication" -> "communication"
      [] slot = "onActuators" -> "actuators"
      [] slot = "onMachineInfo" -> "info"
      [] slot = "onButton" -> "button"
      [] slot = "onSettingsChange" -> NoEvent
      [] slot = "onNotification" -> "notification"
      [] slot = "onProfileChange" -> "profile"
      [] slot = "onHeaterStatus" -> "heater_status"
      [] slot = "onOSUpdate" -> "OSUpdate"

EventNames == {EventNameOf(s) : s \in SlotSet} \ {NoEvent}

\* throttle: None, a number, or a dict from event name to number (a set of
\* <<name, value>> pairs with one pair per name).
NoThrottle == [kind |-> "none", val |-> 0, map |-> {}]
ScalarThrottle(v) == [kind |-> "scalar", val |-> v, map |-> {}]
MapThrottle(m) == [kind |-> "map", val |-> 0, map |-> m]

NoInterval == [has |-> FALSE, val |-> 0]
SomeInterval(v) == [has |-> TRUE, val |-> v]

\* dict.get(event_name)
DictGet(m, name) ==
    IF \E p \in m : p[1] = name
    THEN SomeInterval((CHOOSE p \in m : p[1] = name)[2])
    ELSE NoInterval

\* register_handlers, lines 105-109
ResolveIntervalByField(throttle, slot) ==
    CASE throttle.kind = "scalar" -> SomeInterval(throttle.val)
      [] throttle.kind = "map" -> DictGet(throttle.map, slot)
      [] OTHER -> NoInterval

ResolveInterval(throttle, slot) ==
    CASE throttle.kind = "scalar" -> SomeInterval(throttle.val)
      [] throttle.kind = "map" -> DictGet(throttle.map, EventNameOf(slot))
      [] OTHER -> NoInterval

\* register_handlers, line 111: `if interval and interval > 0`
Wraps(interval) == interval.has /\ interval.val # 0 /\ interval.val > 0

----------------------------------------------------------------------------
(* EventThrottle *)

GateIds == SlotSet \cup {"standalone"}

NoGate == [made |-> FALSE, interval |-> 0, last_emit |-> 0]

\* EventThrottle.__init__
NewGate(interval) == [made |-> TRUE, interval |-> interval, last_emit |-> 0]

\* should_process, line 148
AcceptsStrict(now, last_emit, interval) == now - last_emit > interval

Accepts(now, last_emit, interval) == now - last_emit >= interval

\* should_process, lines 149-151: the gate after a call that read `now`
GateAfterAlwaysStamp(g, now) == [g EXCEPT !.last_emit = now]

GateAfter(g, now) ==
    IF Accepts(now, g.last_emit, g.interval)
    THEN [g EXCEPT !.last_emit = now]
    ELSE g

\* the gates after the gate `id` was asked at reading `now`: throttled_handler
\* holds its own EventThrottle (_gate, line 118) and asks no other
GatesAfterShared(gs, id, now) ==
    [g \in DOMAIN gs |-> IF gs[g].made THEN GateAfter(gs[g], now) ELSE gs[g]]

GatesAfter(gs, id, now) == [gs EXCEPT ![id] = GateAfter(gs[id], now)]

\* the threads that may deliver events, and a thread outside should_process
Threads == {1, 2}

\* a wall clock reading t that has not been set back
ClockAt(t) == [reads |-> t, back |-> FALSE]

IdleThread == [pc |-> "idle", now |-> 0, ok |-> FALSE]

\* the largest reading a gate of the model may have to wait for
LiveTop == MaxClock + MaxInterval

----------------------------------------------------------------------------
(* sio handlers *)

NoHandler == [kind |-> "none", slot |-> "-"]
DirectHandler(slot) == [kind |-> "direct", slot |-> slot]
ThrottledHandler(slot) == [kind |-> "throttled", slot |-> slot]

\* the slots register_handlers binds: a callback is set and an event name known
Bound(opts, slot) == slot \in opts.callbacks /\ EventNameOf(slot) # NoEvent

HandlerFor(opts, slot) ==
    IF Wraps(ResolveInterval(opts.throttle, slot))
    THEN ThrottledHandler(slot)
    ELSE DirectHandler(slot)

\* register_handlers: the sio.on calls of the loop over the fields, in order
RegisterCalls(opts) ==
    LET bs == SelectSeq(Slots, LAMBDA s : Bound(opts, s))
    IN  [i \in 1..Len(bs) |->
            [ev |-> EventNameOf(bs[i]), handler |-> HandlerFor(opts, bs[i])]]

\* sio.on keeps one handler per event name: a later call replaces an earlier one
HandlersAfter(calls) ==
    [ev \in EventNames |->
        LET idx == {i \in 1..Len(calls) : calls[i].ev = ev}
        IN  IF idx = {} THEN NoHandler
            ELSE calls[CHOOSE i \in idx : \A j \in idx : j <= i].handler]

\* register_handlers: one EventThrottle per wrapped callback
RegisteredGates(opts, old) ==
    [g \in GateIds |->
        IF g \in SlotSet /\ Bound(opts, g) /\ Wraps(ResolveInterval(opts.throttle, g))
        THEN NewGate(ResolveInterval(opts.throttle, g).val)
        ELSE old[g]]

----------------------------------------------------------------------------
(* Api.connect_to_socket *)

\* line 190: the first sleep is `backoff` as passed
FirstDelay(b, m) == b

\* line 197: `if attempt > retries: raise`
ExhaustedLate(n, r) == n > r + 1

Exhausted(n, r) == n > r

\* line 200: `delay = min(delay * 2, max_backoff)`
NextDelayUncapped(d, m) == d * 2

NextDelay(d, m) == Min(d * 2, m)

\* each failed sio.connect raises its own exception: that of attempt n is n
ErrorOfAttempt(n) == n

\* line 198: a bare `raise` re-raises the exception being handled
ReraisedFirst(current, first) == first

Reraised(current, first) == current

NoOutcome == [kind |-> "none", err |-> 0]
Returned == [kind |-> "returned", err |-> 0]
Raised(e) == [kind |-> "raised", err |-> e]
\* time.sleep raises ValueError for a negative duration
SleepRaised == [kind |-> "sleep_error", err |-> 0]

NoDisconnect == [called |-> FALSE, was |-> FALSE, raised |-> FALSE]

NeverDisconnected == -1

\* connect_to_socket, lines 192-195: the session after one sio.connect call;
\* a call that raises leaves the session as it was
SessionAfterAttemptPartial(ok, c) == TRUE

SessionAfterAttempt(ok, c) == IF ok THEN TRUE ELSE c

\* connect_to_socket and disconnect_socket, lines 183-203: neither touches
\* the options, the handlers or their gates
GatesReset(gs) ==
    [g \in DOMAIN gs |-> IF gs[g].made THEN NewGate(gs[g].interval) ELSE gs[g]]

GatesAcrossSession(gs) == gs

\* disconnect_socket, line 203: sio.disconnect() leaves the session not
\* connected, whether or not it was connected
SessionToggled(c) == ~c

SessionAfterDisconnect(c) == FALSE

----------------------------------------------------------------------------
(* Socket.IO emitters: send_action_socketio and the other sio.emit calls *)

\* members of the ActionType enum
ActionTypes ==
    {"START", "STOP", "CONTINUE", "RESET", "TARE", "PREHEAT",
     "SCALE_MASTER_CALIBRATION", "HOME", "PURGE", "ABORT"}

\* action.value: the token of a member
ActionValue(a) ==
    CASE a = "START" -> "start"
      [] a = "STOP" -> "stop"
      [] a = "CONTINUE" -> "continue"
      [] a = "RESET" -> "reset"
      [] a = "TARE" -> "tare"
      [] a = "PREHEAT" -> "preheat"
      [] a = "SCALE_MASTER_CALIBRATION" -> "scale_master_calibration"
      [] a = "HOME" -> "home"
      [] a = "PURGE" -> "purge"
      [] a = "ABORT" -> "abort"

ALLOWED_SOCKETIO_ACTIONS ==
    {ActionValue("START"), ActionValue("STOP"), ActionValue("CONTINUE"),
     ActionValue("TARE"), ActionValue("PREHEAT"),
     ActionValue("SCALE_MASTER_CALIBRATION"), ActionValue("HOME"),
     ActionValue("PURGE"), ActionValue("ABORT")}

\* send_action_socketio, line 215
AllowsAny(token) == TRUE

AllowedAction(token) == token \in ALLOWED_SOCKETIO_ACTIONS

\* a frame handed to sio.emit; ack says whether a callback was passed, which
\* is what makes the server acknowledge the frame
Frame(event, payload) == [event |-> event, payload |-> payload, ack |-> FALSE]

\* send_action_socketio, line 217
ActionFrameByName(a) == Frame("action", a)

ActionFrame(a) == Frame("action", ActionValue(a))

\* json.dumps of {"id": ..., "response": ...} as its sequence of tokens
NotificationJson(id, response) ==
    <<"{", "id", ":", id, ",", "response", ":", response, "}">>

NotificationIds == {"n1"}
NotificationResponses == {"ok", "reset"}
HoverProfiles == {"p1"}

----------------------------------------------------------------------------
(* Shot-log payloads: json.dumps / json.loads and the zstd frame.          *)
(* A byte is a number in 0..255. A document is a JSON array of one-digit   *)
(* numbers, written as the sequence of its items.                          *)

None == "None"

Docs == UNION {[1..n -> 0..1] : n \in 0..MaxDocLen}

RECURSIVE DumpsFrom(_, _)
\* items i.. of a document, each after the first behind ", "
DumpsFrom(d, i) ==
    IF i > Len(d) THEN <<>>
    ELSE (IF i > 1 THEN <<44, 32>> ELSE <<>>) \o <<48 + d[i]>>
             \o DumpsFrom(d, i + 1)

\* json.dumps(payload).encode("utf-8"): "[" items "]"
Dumps(d) == <<91>> \o DumpsFrom(d, 1) \o <<93>>

\* the items between the brackets, spaces removed: digits separated by commas
WellFormedItems(m) ==
    \/ Len(m) = 0
    \/ /\ Len(m) % 2 = 1
       /\ \A i \in 1..Len(m) :
             IF i % 2 = 1 THEN m[i] \in 48..57 ELSE m[i] = 44

\* json.loads(bytes): the bytes are decoded as UTF-8 first, which fails on
\* a byte that cannot occur in UTF-8 text (every byte from 128 up that the
\* model uses comes with no lead byte); the text is then parsed. Spaces
\* only separate tokens, and every token here is one character.
Loads(b) ==
    IF \E i \in 1..Len(b) : b[i] >= 128
    THEN [kind |-> "UnicodeDecodeError", doc |-> <<>>,
          msg |-> "invalid start byte"]
    ELSE LET s == SelectSeq(b, LAMBDA x : x # 32)
             n == Len(s)
         IN  IF /\ n >= 2
                /\ s[1] = 91
                /\ s[n] = 93
                /\ WellFormedItems(SubSeq(s, 2, n - 1))
             THEN [kind |-> "value",
                   doc |-> [k \in 1..((n - 1) \div 2) |-> s[2 * k] - 48],
                   msg |-> ""]
             ELSE [kind |-> "JSONDecodeError", doc |-> <<>>,
                   msg |-> "Expecting value"]

\* the four bytes 28 B5 2F FD that open a zstd frame
Magic == <<40, 181, 47, 253>>

\* zstd.ZstdCompressor().compress(data): the magic number, a header that
\* records the size of the content, and the content (stored, no checksum)
Compress(data) == Magic \o <<Len(data)>> \o data

\* content.startswith(b"\x28\xb5\x2f\xfd"), line 733
NeverMagic(content) == FALSE

HasMagic(content) ==
    Len(content) >= Len(Magic) /\ SubSeq(content, 1, Len(Magic)) = Magic

\* zstd.ZstdDecompressor().decompress(content) on the whole buffer, line 735:
\* ZstdError when the frame is cut short or its header is damaged
DecompressRemainder(content) ==
    [kind |-> "ZstdError", out |-> <<>>, msg |-> "unknown frame descriptor"]

Decompress(content) ==
    IF ~HasMagic(content) \/ Len(content) = Len(Magic)
    THEN [kind |-> "ZstdError", out |-> <<>>,
          msg |-> "unknown frame descriptor"]
    ELSE IF content[Len(Magic) + 1] # Len(content) - Len(Magic) - 1
    THEN [kind |-> "ZstdError", out |-> <<>>,
          msg |-> "could not decompress frame"]
    ELSE [kind |-> "ok", out |-> SubSeq(content, Len(Magic) + 2, Len(content)),
          msg |-> ""]

----------------------------------------------------------------------------
(* REST calls: responses of the transport and results of the methods *)

\* str(response.status_code)
StatusStr(code) ==
    CASE code = 200 -> "200"
      [] code = 404 -> "404"
      [] code = 500 -> "500"

ErrorStatuses == {404, 500}

\* what session.get gives: a response with a status and a body, or, with
\* net set, a requests exception raised for a failure of the network
Response(status, body) == [net |-> FALSE, status |-> status, body |-> body]

NetworkError == [net |-> TRUE, status |-> 0, body |-> <<>>]

\* bodies of non-200 responses: not JSON, or a JSON object that may hold
\* "error" and "status" strings
ErrorBodies ==
    [json : BOOLEAN, error : {None, "not found"}, status : {None, "404"}]

\* results of a REST method; decompressed and parsed tell whether the call
\* ran the decompressor and json.loads on the body
Value(doc, dec) ==
    [kind |-> "value", doc |-> doc, status |-> None, error |-> None,
     decompressed |-> dec, parsed |-> TRUE]

ApiError(status, error, dec, parsed) ==
    [kind |-> "APIError", doc |-> <<>>, status |-> status, error |-> error,
     decompressed |-> dec, parsed |-> parsed]

RaisedError(exc, dec, parsed) ==
    [kind |-> "raised", doc |-> <<>>, status |-> None, error |-> exc,
     decompressed |-> dec, parsed |-> parsed]

\* get_shot_log, lines 721-728: the APIError the body validates as, else
\* one built from the status code and the text
LogErrorOf(resp) ==
    IF resp.body.json
    THEN ApiError(resp.body.status, resp.body.error, FALSE, FALSE)
    ELSE ApiError(StatusStr(resp.status), "Failed to fetch log", FALSE, FALSE)

\* get_shot_log, lines 736-737
ParseErrorForZstd(msg) == ApiError("JSON Parse Error", msg, TRUE, FALSE)

DecompressionError(msg) == ApiError("Decompression Error", msg, TRUE, FALSE)

\* get_shot_log, lines 739-742: only json.JSONDecodeError is caught
ParseLog(content, dec) ==
    LET l == Loads(content)
    IN  CASE l.kind = "value" -> Value(l.doc, dec)
          [] l.kind = "JSONDecodeError" ->
                 ApiError("JSON Parse Error", l.msg, dec, TRUE)
          [] l.kind = "UnicodeDecodeError" ->
                 RaisedError("UnicodeDecodeError", dec, TRUE)

\* get_shot_log(date_str, filename), given what session.get did
GetShotLogResult(resp) ==
    IF resp.net THEN RaisedError("ConnectionError", FALSE, FALSE)
    ELSE IF resp.status # 200 THEN LogErrorOf(resp)
    ELSE IF HasMagic(resp.body)
    THEN LET d == Decompress(resp.body)
         IN  IF d.kind = "ZstdError" THEN DecompressionError(d.msg)
             ELSE ParseLog(d.out, TRUE)
    ELSE ParseLog(resp.body, FALSE)

\* a buffer, the buffer cut short, and the buffer with one byte turned to
\* "X" or to FF
Variants(b) ==
    {SubSeq(b, 1, n) : n \in 0..Len(b)}
        \cup {[b EXCEPT ![i] = x] : i \in 1..Len(b), x \in {88, 255}}

\* 200 bodies of a log file: plain or compressed JSON, intact or damaged
LogBodies ==
    UNION {Variants(Dumps(d)) \cup Variants(Compress(Dumps(d))) : d \in Docs}

LogResponses ==
    {NetworkError}
        \cup {Response(200, b) : b \in LogBodies}
        \cup {Response(c, e) : c \in ErrorStatuses, e \in ErrorBodies}

\* JSON bodies of the history endpoints: null, a shot record, an object
\* that is not a shot record but may hold "error" and "status" strings, or
\* text that is not JSON
ShotBodies ==
    {[kind |-> "null"], [kind |-> "text"]}
        \cup {[kind |-> "record", id |-> i] : i \in 1..2}
        \cup [kind : {"object"}, error : {None, "not found"},
              status : {None, "404"}]

ShotResponses ==
    {NetworkError}
        \cup {Response(c, b) : c \in {200} \cup ErrorStatuses, b \in ShotBodies}

NoneResult ==
    [kind |-> "None", doc |-> <<>>, status |-> None, error |-> None,
     decompressed |-> FALSE, parsed |-> FALSE]

Entry(id) ==
    [kind |-> "entry", doc |-> <<id>>, status |-> None, error |-> None,
     decompressed |-> FALSE, parsed |-> FALSE]

\* _error_from_response: the APIError the JSON body validates as (fields
\* other than error and status are ignored), else one built from the reason
\* and the status code when the body is not JSON or not an object
ErrorFromResponse(resp) ==
    CASE resp.body.kind = "object" ->
             ApiError(resp.body.status, resp.body.error, FALSE, FALSE)
      [] resp.body.kind = "record" -> ApiError(None, None, FALSE, FALSE)
      [] OTHER -> ApiError(StatusStr(resp.status), "reason", FALSE, FALSE)

\* get_current_shot / get_last_shot, given what session.get did
GetShotResultNullFirst(resp) ==
    IF resp.net THEN RaisedError("ConnectionError", FALSE, FALSE)
    ELSE IF resp.body.kind = "null" THEN NoneResult
    ELSE IF resp.status = 200 THEN Entry(1)
    ELSE ErrorFromResponse(resp)

GetShotResult(resp) ==
    IF resp.net THEN RaisedError("ConnectionError", FALSE, FALSE)
    ELSE IF resp.status = 200
    THEN CASE resp.body.kind = "null" -> NoneResult
           [] resp.body.kind = "record" -> Entry(resp.body.id)
           [] resp.body.kind = "object" ->
                  RaisedError("ValidationError", FALSE, FALSE)
           [] resp.body.kind = "text" ->
                  RaisedError("JSONDecodeError", FALSE, FALSE)
    ELSE ErrorFromResponse(resp)

\* names of date buckets and of shot files: strings of one or two of the
\* characters "1" and "2", written as sequences
Names == UNION {[1..n -> 1..2] : n \in 1..2}

RECURSIVE LexLess(_, _)
\* a < b for Python strings: by the first character that differs, a proper
\* prefix being smaller
LexLess(a, b) ==
    IF Len(b) = 0 THEN FALSE
    ELSE IF Len(a) = 0 THEN TRUE
    ELSE IF a[1] # b[1] THEN a[1] < b[1]
    ELSE LexLess(Tail(a), Tail(b))

\* HistoryFile(name, url); the url is what the server serves the file under
HistoryFile(n) == [name |-> n, url |-> [path |-> n]]

\* listings the server can give: entries with distinct names, in any order
Listings ==
    {l \in UNION {[1..n -> {HistoryFile(m) : m \in Names}] : n \in 0..MaxListLen} :
        \A i, j \in 1..Len(l) : i # j => l[i].name # l[j].name}

RECURSIVE InsertAscending(_, _)
InsertAscending(e, sorted) ==
    IF Len(sorted) = 0 THEN <<e>>
    ELSE IF LexLess(e.name, Head(sorted).name)
    THEN <<e>> \o sorted
    ELSE <<Head(sorted)>> \o InsertAscending(e, Tail(sorted))

RECURSIVE SortByNameAscending(_)
SortByNameAscending(l) ==
    IF Len(l) = 0 THEN <<>>
    ELSE InsertAscending(Head(l), SortByNameAscending(Tail(l)))

RECURSIVE InsertDescending(_, _)
\* e goes behind the entries that are not smaller than it
InsertDescending(e, sorted) ==
    IF Len(sorted) = 0 THEN <<e>>
    ELSE IF LexLess(Head(sorted).name, e.name)
    THEN <<e>> \o sorted
    ELSE <<Head(sorted)>> \o InsertDescending(e, Tail(sorted))

RECURSIVE SortByNameDescending(_)
\* list.sort(key=lambda x: x.name, reverse=True)
SortByNameDescending(l) ==
    IF Len(l) = 0 THEN <<>>
    ELSE InsertDescending(l[Len(l)],
                          SortByNameDescending(SubSeq(l, 1, Len(l) - 1)))

\* responses to the two listing requests
ListingResponses ==
    {NetworkError}
        \cup {Response(200, l) : l \in Listings}
        \cup {Response(404, b) :
                 b \in {[kind |-> "text"],
                        [kind |-> "object", error |-> "not found",
                         status |-> "404"]}}

\* get_history_dates / get_shot_files, given what session.get did
ListingResultSwallowed(resp) ==
    IF resp.net THEN RaisedError("ConnectionError", FALSE, FALSE)
    ELSE IF resp.status = 200 THEN [kind |-> "list", list |-> resp.body]
    ELSE [kind |-> "list", list |-> <<>>]

ListingResult(resp) ==
    IF resp.net THEN RaisedError("ConnectionError", FALSE, FALSE)
    ELSE IF resp.status = 200 THEN [kind |-> "list", list |-> resp.body]
    ELSE ErrorFromResponse(resp)

\* the document the server keeps in a file of a bucket: the name of the
\* bucket, a 0, and the path of the file
LogDoc(date, url) == date \o <<0>> \o url.path

\* what the server answers to the request for a file of a bucket: the
\* document as JSON, the document compressed, or 404
ServerLog(date, url, how) ==
    CASE how = "plain" -> Response(200, Dumps(LogDoc(date, url)))
      [] how = "zstd" -> Response(200, Compress(Dumps(LogDoc(date, url))))
      [] how = "gone" ->
             Response(404, [json |-> FALSE, error |-> None, status |-> None])

\* get_last_shot_log(): the requests it makes and what it returns
GetLastShotLogResult(datesResp, filesResp, how) ==
    LET dates == ListingResult(datesResp)
    IN  IF dates.kind # "list"
        THEN [requests |-> <<<<"files">>>>, result |-> dates]
        ELSE IF Len(dates.list) = 0
        THEN [requests |-> <<<<"files">>>>,
              result |-> ApiError("No Data", "No history dates found",
                                  FALSE, FALSE)]
        ELSE
        LET latest_date == SortByNameDescending(dates.list)[1].name
            files == ListingResult(filesResp)
            upToFiles == <<<<"files">>, <<"files", latest_date>>>>
        IN  IF files.kind # "list"
            THEN [requests |-> upToFiles, result |-> files]
            ELSE IF Len(files.list) = 0
            THEN [requests |-> upToFiles,
                  result |-> ApiError("No Data", "No shot files found",
                                      FALSE, FALSE)]
            ELSE
            LET latest_file == SortByNameDescending(files.list)[1]
            IN  [requests |->
                     Append(upToFiles,
                            <<"files", latest_date, latest_file.url>>),
                 result |->
                     GetShotLogResult(ServerLog(latest_date, latest_file.url,
                                                how))]

----------------------------------------------------------------------------
(* Initial states *)

DefaultOptions == [callbacks |-> {}, throttle |-> NoThrottle]

NoRest == [op |-> "none"]

OtherIdle ==
    /\ sendLog = <<>>
    /\ emitted = <<>>
    /\ rest = NoRest
    /\ clock = ClockAt(0)
    /\ threads = [th \in Threads |-> IdleThread]

ThrottleIdle ==
    /\ options = DefaultOptions
    /\ registrations = <<>>
    /\ handlers = [ev \in EventNames |-> NoHandler]
    /\ gates = [g \in GateIds |-> NoGate]
    /\ trace = <<>>
    /\ received = <<>>

ConnIdle ==
    /\ pc = "idle"
    /\ retries = 0
    /\ backoff = 0
    /\ max_backoff = 0
    /\ attempt = 0
    /\ delay = 0
    /\ sleeps = <<>>
    /\ attempts = 0
    /\ connected = FALSE
    /\ outcome = NoOutcome
    /\ lastDisc = NoDisconnect
    /\ discAt = NeverDisconnected

\* Api(): default options, no handler registered
Init ==
    /\ ThrottleIdle
    /\ constructed = TRUE
    /\ ConnIdle
    /\ OtherIdle

\* EventThrottle(interval) used on its own
InitGate ==
    /\ options = DefaultOptions
    /\ constructed = FALSE
    /\ registrations = <<>>
    /\ handlers = [ev \in EventNames |-> NoHandler]
    /\ \E d \in Intervals :
          gates = [g \in GateIds |-> IF g = "standalone" THEN NewGate(d) ELSE NoGate]
    /\ trace = <<>>
    /\ received = <<>>
    /\ ConnIdle
    /\ OtherIdle

CallbackChoices ==
    { {"onStatus"},
      {"onStatus", "onSensors", "onButton"},
      {"onSensors", "onTemperatureSensors"},
      {"onSettingsChange", "onButton"} }

ThrottleChoices ==
    {NoThrottle}
    \cup {ScalarThrottle(v) : v \in Intervals}
    \cup {MapThrottle({<<"status", 1>>, <<"sensors", 2>>}),
          MapThrottle({<<"status", 0>>, <<"button", 2>>, <<"onSensors", 1>>})}

\* ApiOptions(...) built, Api not yet constructed
InitDispatch ==
    /\ \E cbs \in CallbackChoices, th \in ThrottleChoices :
          options = [callbacks |-> cbs, throttle |-> th]
    /\ constructed = FALSE
    /\ registrations = <<>>
    /\ handlers = [ev \in EventNames |-> NoHandler]
    /\ gates = [g \in GateIds |-> NoGate]
    /\ trace = <<>>
    /\ received = <<>>
    /\ ConnIdle
    /\ OtherIdle

\* two threads about to call should_process on one fresh gate
InitRace ==
    /\ options = DefaultOptions
    /\ constructed = FALSE
    /\ registrations = <<>>
    /\ handlers = [ev \in EventNames |-> NoHandler]
    /\ \E d \in Intervals :
          gates = [g \in GateIds |-> IF g = "standalone" THEN NewGate(d) ELSE NoGate]
    /\ trace = <<>>
    /\ received = <<>>
    /\ ConnIdle
    /\ OtherIdle

\* a gate in any state it can be in (_last_emit is the reading of some
\* accepted call, or 0.0), and a clock that may read less than _last_emit
InitLive ==
    /\ options = DefaultOptions
    /\ constructed = FALSE
    /\ registrations = <<>>
    /\ handlers = [ev \in EventNames |-> NoHandler]
    /\ \E d \in Intervals, l \in Clock :
          gates = [g \in GateIds |->
                      IF g = "standalone"
                      THEN [NewGate(d) EXCEPT !.last_emit = l] ELSE NoGate]
    /\ trace = <<>>
    /\ received = <<>>
    /\ ConnIdle
    /\ sendLog = <<>>
    /\ emitted = <<>>
    /\ rest = NoRest
    /\ \E t \in Clock : clock = ClockAt(t)
    /\ threads = [th \in Threads |-> IdleThread]

\* one client from construction on: a status callback throttled at 2 ticks
LifeOptions == [callbacks |-> {"onStatus"}, throttle |-> ScalarThrottle(2)]

InitLife ==
    /\ options = LifeOptions
    /\ constructed = FALSE
    /\ registrations = <<>>
    /\ handlers = [ev \in EventNames |-> NoHandler]
    /\ gates = [g \in GateIds |-> NoGate]
    /\ trace = <<>>
    /\ received = <<>>
    /\ ConnIdle
    /\ OtherIdle

----------------------------------------------------------------------------
(* Actions *)

\* throttled_handler, lines 121-123: the callback runs with the arguments of
\* the event when the gate accepts it, and not otherwise; a callback bound
\* directly always runs. The payload of the i-th call recorded is i.
ReceivedAfterAlways(rcv, slot, ok, payload) ==
    Append(rcv, [slot |-> slot, payload |-> payload])

ReceivedAfter(rcv, slot, ok, payload) ==
    IF ok THEN Append(rcv, [slot |-> slot, payload |-> payload]) ELSE rcv

\* one call of should_process on the standalone gate, or one event handed to
\* the handler of slot `slot`: whether time.time() was read, what it read, and
\* whether the call was accepted (the slot's callback invoked)
Call(slot, ev, read, t, ok) ==
    [slot |-> slot, ev |-> ev, read |-> read, t |-> t, ok |-> ok]

\* EventThrottle.should_process on a gate used on its own; time.time() reads t
ShouldProcess(t) ==
    /\ gates["standalone"].made
    /\ Len(trace) < MaxCalls
    /\ LET g == gates["standalone"] IN
         /\ gates' = GatesAfter(gates, "standalone", t)
         /\ trace' = Append(trace, Call("standalone", NoEvent, TRUE, t,
                                        Accepts(t, g.last_emit, g.interval)))
    /\ UNCHANGED <<options, constructed, registrations, handlers, received>>
    /\ UNCHANGED <<connVars, otherVars>>

\* the wall clock moves on by one tick
Tick(top) ==
    /\ clock.reads < top
    /\ clock' = [clock EXCEPT !.reads = clock.reads + 1]
    /\ UNCHANGED <<throttleVars, connVars, sendLog, emitted, rest, threads>>

\* the wall clock is set back to t (an adjustment of the system time), once
StepBack(t) ==
    /\ ~clock.back
    /\ t < clock.reads
    /\ clock' = [reads |-> t, back |-> TRUE]
    /\ UNCHANGED <<throttleVars, connVars, sendLog, emitted, rest, threads>>

\* should_process line 147 on thread th: now = time.time()
ReadClock(th) ==
    /\ gates["standalone"].made
    /\ threads[th].pc = "idle"
    /\ Len(trace) + Cardinality({u \in Threads : threads[u].pc # "idle"})
           < MaxCalls
    /\ threads' = [threads EXCEPT ![th] =
                       [pc |-> "check", now |-> clock.reads, ok |-> FALSE]]
    /\ UNCHANGED <<throttleVars, connVars, sendLog, emitted, rest, clock>>

\* line 148 on thread th: if now - self._last_emit >= self.interval
CheckElapsed(th) ==
    /\ threads[th].pc = "check"
    /\ threads' = [threads EXCEPT ![th].pc =
                       IF Accepts(threads[th].now,
                                  gates["standalone"].last_emit,
                                  gates["standalone"].interval)
                       THEN "write" ELSE "return"]
    /\ UNCHANGED <<throttleVars, connVars, sendLog, emitted, rest, clock>>

\* line 149 on thread th: self._last_emit = now, and True is the result
WriteStamp(th) ==
    /\ threads[th].pc = "write"
    /\ gates' = [gates EXCEPT !["standalone"].last_emit = threads[th].now]
    /\ threads' = [threads EXCEPT ![th].pc = "return", ![th].ok = TRUE]
    /\ UNCHANGED <<options, constructed, registrations, handlers, trace,
                   received>>
    /\ UNCHANGED <<connVars, sendLog, emitted, rest, clock>>

\* lines 150-151 on thread th: the call returns and is recorded
ReturnCall(th) ==
    /\ threads[th].pc = "return"
    /\ trace' = Append(trace, Call("standalone", NoEvent, TRUE,
                                   threads[th].now, threads[th].ok))
    /\ threads' = [threads EXCEPT ![th].pc = "idle"]
    /\ UNCHANGED <<options, constructed, registrations, handlers, gates,
                   received>>
    /\ UNCHANGED <<connVars, sendLog, emitted, rest, clock>>

\* lines 150-151 on thread th: the call returns; the thread keeps its result
\* until its next call
ReturnQuiet(th) ==
    /\ threads[th].pc = "return"
    /\ threads' = [threads EXCEPT ![th].pc = "idle"]
    /\ UNCHANGED <<throttleVars, connVars, sendLog, emitted, rest, clock>>

\* Api.__init__: register_handlers(self.sio)
ApiInit ==
    /\ ~constructed
    /\ constructed' = TRUE
    /\ registrations' = RegisterCalls(options)
    /\ handlers' = HandlersAfter(RegisterCalls(options))
    /\ gates' = RegisteredGates(options, gates)
    /\ UNCHANGED <<options, trace, received>>
    /\ UNCHANGED <<connVars, otherVars>>

\* an event arrives for a callback bound directly: the callback runs
DeliverDirect(ev) ==
    /\ constructed
    /\ handlers[ev].kind = "direct"
    /\ Len(trace) < MaxCalls
    /\ trace' = Append(trace, Call(handlers[ev].slot, ev, FALSE, 0, TRUE))
    /\ received' = ReceivedAfter(received, handlers[ev].slot, TRUE, Len(trace) + 1)
    /\ UNCHANGED <<options, constructed, registrations, handlers, gates>>
    /\ UNCHANGED <<connVars, otherVars>>

\* an event arrives for throttled_handler; time.time() reads t
DeliverThrottled(ev, t) ==
    /\ constructed
    /\ handlers[ev].kind = "throttled"
    /\ Len(trace) < MaxCalls
    /\ LET s == handlers[ev].slot
           g == gates[s]
       IN  /\ gates' = GatesAfter(gates, s, t)
           /\ trace' = Append(trace, Call(s, ev, TRUE, t,
                                          Accepts(t, g.last_emit, g.interval)))
           /\ received' = ReceivedAfter(received, s,
                                        Accepts(t, g.last_emit, g.interval),
                                        Len(trace) + 1)
    /\ UNCHANGED <<options, constructed, registrations, handlers>>
    /\ UNCHANGED <<connVars, otherVars>>

\* connect_to_socket(retries=r, backoff=b, max_backoff=m) is called
ConnectCall(r, b, m) ==
    /\ constructed
    /\ pc # "try"
    /\ pc' = "try"
    /\ retries' = r
    /\ backoff' = b
    /\ max_backoff' = m
    /\ attempt' = 0
    /\ delay' = FirstDelay(b, m)
    /\ sleeps' = <<>>
    /\ attempts' = 0
    /\ outcome' = NoOutcome
    /\ lastDisc' = NoDisconnect
    /\ UNCHANGED <<connected, discAt>>
    /\ UNCHANGED <<throttleVars, otherVars>>

\* sio.connect succeeds: return
AttemptOk ==
    /\ pc = "try"
    /\ attempts' = attempts + 1
    /\ connected' = SessionAfterAttempt(TRUE, connected)
    /\ pc' = "returned"
    /\ outcome' = Returned
    /\ gates' = GatesAcrossSession(gates)
    /\ UNCHANGED <<retries, backoff, max_backoff, attempt, delay, sleeps,
                   lastDisc, discAt>>
    /\ UNCHANGED <<options, constructed, registrations, handlers, trace,
                   received, otherVars>>

\* sio.connect raises: count, then raise or sleep and double the delay
AttemptFail ==
    /\ pc = "try"
    /\ attempts' = attempts + 1
    /\ attempt' = attempt + 1
    /\ IF Exhausted(attempt + 1, retries)
       THEN /\ pc' = "raised"
            /\ outcome' = Raised(Reraised(ErrorOfAttempt(attempts + 1), ErrorOfAttempt(1)))
            /\ UNCHANGED <<delay, sleeps>>
       ELSE IF delay < 0
       THEN /\ pc' = "raised"
            /\ outcome' = SleepRaised
            /\ UNCHANGED <<delay, sleeps>>
       ELSE /\ sleeps' = Append(sleeps, delay)
            /\ delay' = NextDelay(delay, max_backoff)
            /\ UNCHANGED <<pc, outcome>>
    /\ connected' = SessionAfterAttempt(FALSE, connected)
    /\ UNCHANGED <<retries, backoff, max_backoff, lastDisc, discAt>>
    /\ UNCHANGED <<throttleVars, otherVars>>

\* disconnect_socket: sio.disconnect()
DisconnectSocket ==
    /\ constructed
    /\ pc # "try"
    /\ connected' = SessionAfterDisconnect(connected)
    /\ lastDisc' = [called |-> TRUE, was |-> connected, raised |-> FALSE]
    /\ discAt' = IF connected THEN Len(trace) ELSE discAt
    /\ gates' = GatesAcrossSession(gates)
    /\ UNCHANGED <<pc, retries, backoff, max_backoff, attempt, delay, sleeps,
                   attempts, outcome>>
    /\ UNCHANGED <<options, constructed, registrations, handlers, trace,
                   received, otherVars>>

\* send_action_socketio(action): raises ValueError for a token outside the
\* allowlist, else hands one frame to sio.emit and returns. at is the place
\* of the frame in emitted, 0 when the call raised.
SendActionSocketio(a) ==
    /\ constructed
    /\ Len(sendLog) < MaxSends
    /\ IF AllowedAction(ActionValue(a))
       THEN /\ emitted' = Append(emitted, ActionFrame(a))
            /\ sendLog' = Append(sendLog, [action |-> a, raised |-> FALSE,
                                           at |-> Len(emitted) + 1])
       ELSE /\ emitted' = emitted
            /\ sendLog' = Append(sendLog, [action |-> a, raised |-> TRUE,
                                           at |-> 0])
    /\ UNCHANGED <<throttleVars, connVars, raceVars, rest>>

\* acknowledge_notification_socketio(notification_id, response)
AcknowledgeNotificationSocketio(id, response) ==
    /\ constructed
    /\ Len(emitted) < MaxSends
    /\ emitted' = Append(emitted,
                         Frame("notification", NotificationJson(id, response)))
    /\ UNCHANGED <<throttleVars, connVars, raceVars, sendLog, rest>>

\* send_profile_hover(profile_data)
SendProfileHover(data) ==
    /\ constructed
    /\ Len(emitted) < MaxSends
    /\ emitted' = Append(emitted, Frame("profileHover", data))
    /\ UNCHANGED <<throttleVars, connVars, raceVars, sendLog, rest>>

\* trigger_calibration(enable)
TriggerCalibration(enable) ==
    /\ constructed
    /\ Len(emitted) < MaxSends
    /\ emitted' = Append(emitted, Frame("calibrate", enable))
    /\ UNCHANGED <<throttleVars, connVars, raceVars, sendLog, rest>>

\* get_current_shot()
GetCurrentShot(resp) ==
    /\ constructed
    /\ rest = NoRest
    /\ rest' = [op |-> "get_current_shot", path |-> "history/current",
                resp |-> resp, result |-> GetShotResult(resp)]
    /\ UNCHANGED <<throttleVars, connVars, raceVars, sendLog, emitted>>

\* get_last_shot()
GetLastShot(resp) ==
    /\ constructed
    /\ rest = NoRest
    /\ rest' = [op |-> "get_last_shot", path |-> "history/last",
                resp |-> resp, result |-> GetShotResult(resp)]
    /\ UNCHANGED <<throttleVars, connVars, raceVars, sendLog, emitted>>

\* get_last_shot_log(), against a server that answers the two listing
\* requests with datesResp and filesResp
GetLastShotLog(datesResp, filesResp, how) ==
    /\ constructed
    /\ rest = NoRest
    /\ rest' = [op |-> "get_last_shot_log", dates |-> datesResp,
                files |-> filesResp, how |-> how,
                requests |->
                    GetLastShotLogResult(datesResp, filesResp, how).requests,
                result |->
                    GetLastShotLogResult(datesResp, filesResp, how).result]
    /\ UNCHANGED <<throttleVars, connVars, raceVars, sendLog, emitted>>

\* get_shot_log(date_str, filename)
GetShotLog(resp) ==
    /\ constructed
    /\ rest = NoRest
    /\ rest' = [op |-> "get_shot_log", resp |-> resp,
                result |-> GetShotLogResult(resp)]
    /\ UNCHANGED <<throttleVars, connVars, raceVars, sendLog, emitted>>

----------------------------------------------------------------------------
(* Specifications *)

NextGate == \E t \in Clock : ShouldProcess(t)

SpecGate == InitGate /\ [][NextGate]_vars

NextDispatch ==
    \/ ApiInit
    \/ \E ev \in EventNames : DeliverDirect(ev)
    \/ \E ev \in EventNames, t \in Clock : DeliverThrottled(ev, t)

SpecDispatch == InitDispatch /\ [][NextDispatch]_vars

NextConn ==
    \/ \E r \in -1..MaxRetries, b \in -1..MaxBackoff, m \in -1..MaxBackoff :
          ConnectCall(r, b, m)
    \/ AttemptOk
    \/ AttemptFail
    \/ DisconnectSocket

SpecConn == Init /\ [][NextConn]_vars

\* one REST call is followed: the methods keep nothing between calls
NextRest ==
    \/ rest = NoRest /\ \E resp \in LogResponses : GetShotLog(resp)
    \/ rest = NoRest /\ \E resp \in ShotResponses : GetCurrentShot(resp)
    \/ rest = NoRest /\ \E resp \in ShotResponses : GetLastShot(resp)
    \/ rest = NoRest
          /\ \E datesResp \in ListingResponses, filesResp \in ListingResponses,
                how \in {"plain", "zstd", "gone"} :
                GetLastShotLog(datesResp, filesResp, how)

SpecRest == Init /\ [][NextRest]_vars

NextAction ==
    \/ \E a \in ActionTypes : SendActionSocketio(a)
    \/ \E id \in NotificationIds, response \in NotificationResponses :
          AcknowledgeNotificationSocketio(id, response)
    \/ \E data \in HoverProfiles : SendProfileHover(data)
    \/ \E enable \in BOOLEAN : TriggerCalibration(enable)

SpecAction == Init /\ [][NextAction]_vars

\* the life of one client: construction, connect with one retry, events while
\* the session is connected, disconnect, an action sent, a log fetched
NextLife ==
    \/ ApiInit
    \/ ConnectCall(1, 1, 1)
    \/ AttemptOk
    \/ AttemptFail
    \/ DisconnectSocket
    \/ connected /\ \E ev \in EventNames, t \in Clock : DeliverThrottled(ev, t)
    \/ SendActionSocketio("START")
    \/ GetShotLog(Response(200, Dumps(<<>>)))

SpecLife == InitLife /\ [][NextLife]_vars

\* two threads inside should_process of one gate, interleaved statement by
\* statement, under a wall clock that does not go back
NextRace ==
    \/ Tick(MaxClock)
    \/ \E th \in Threads : ReadClock(th)
    \/ \E th \in Threads : CheckElapsed(th)
    \/ \E th \in Threads : WriteStamp(th)
    \/ \E th \in Threads : ReturnCall(th)

SpecRace == InitRace /\ [][NextRace]_vars

\* one thread delivering event after event
LiveCall ==
    \/ ReadClock(1)
    \/ CheckElapsed(1)
    \/ WriteStamp(1)
    \/ ReturnQuiet(1)

NextLive ==
    \/ Tick(LiveTop)
    \/ \E t \in Clock : StepBack(t)
    \/ LiveCall

\* events keep arriving and the clock keeps growing (it is set back at most
\* once)
SpecLive ==
    InitLive /\ [][NextLive]_vars /\ WF_vars(Tick(LiveTop)) /\ WF_vars(LiveCall)

Next == NextGate \/ NextDispatch \/ NextConn \/ NextAction \/ NextRest \/ NextLife
            \/ NextRace \/ NextLive

Spec == Init /\ [][Next]_vars

----------------------------------------------------------------------------
(* Properties of EventThrottle *)

\* the calls recorded before call i on the same gate that were accepted
AcceptedBefore(i) ==
    {j \in 1..(i - 1) : trace[j].slot = trace[i].slot /\ trace[j].read /\ trace[j].ok}

\* the latest of them
LastAcceptedBefore(i) == CHOOSE j \in AcceptedBefore(i) : \A k \in AcceptedBefore(i) : k <= j

\* C1: on a gate with interval d > 0, a call made after an accepted call is
\* accepted exactly when its clock reading minus the reading of the previous
\* accepted call is >= d (elapsed = d is accepted, elapsed < d is rejected).
C1_Spacing ==
    \A i \in 1..Len(trace) :
        (trace[i].read /\ gates[trace[i].slot].interval > 0 /\ AcceptedBefore(i) # {})
        => (trace[i].ok <=>
              trace[i].t - trace[LastAcceptedBefore(i)].t >= gates[trace[i].slot].interval)

\* strictly increasing readings 2 < 3 < 4 with d = 2: accepted, rejected
\* (elapsed 1), accepted (elapsed exactly 2)
C1_Witness ==
    /\ gates["standalone"].interval = 2
    /\ trace = <<Call("standalone", NoEvent, TRUE, 2, TRUE),
                 Call("standalone", NoEvent, TRUE, 3, FALSE),
                 Call("standalone", NoEvent, TRUE, 4, TRUE)>>

\* C2: the first call on a fresh gate with interval d > 0 is accepted, whatever
\* the clock reads.
C2_FirstCallAccepted ==
    (gates["standalone"].interval > 0 /\ Len(trace) >= 1) => trace[1].ok

\* C3: with interval 0 every call is accepted, whatever the clock reads.
C3_ZeroNeverThrottles ==
    gates["standalone"].interval = 0 => \A i \in 1..Len(trace) : trace[i].ok

----------------------------------------------------------------------------
(* Properties of register_handlers *)

\* the interval the throttle configuration gives an event name: the scalar, or
\* the mapping's entry for that name, or none
HasConfigured(ev) ==
    \/ options.throttle.kind = "scalar"
    \/ options.throttle.kind = "map" /\ \E p \in options.throttle.map : p[1] = ev

Configured(ev) ==
    IF options.throttle.kind = "scalar" THEN options.throttle.val
    ELSE (CHOOSE p \in options.throttle.map : p[1] = ev)[2]

Unthrottled(ev) == ~HasConfigured(ev) \/ Configured(ev) <= 0

\* C4: every registered event is gated at the interval the throttle gives its
\* event name (the scalar, or the mapping's entry) and an event the mapping
\* does not name is not throttled: each of its events is delivered.
C4_PerEventInterval ==
    /\ \A i \in 1..Len(registrations) :
          LET r == registrations[i] IN
            IF Unthrottled(r.ev)
            THEN r.handler.kind = "direct"
            ELSE /\ r.handler.kind = "throttled"
                 /\ gates[r.handler.slot].made
                 /\ gates[r.handler.slot].interval = Configured(r.ev)
    /\ \A i \in 1..Len(trace) :
          IF Unthrottled(trace[i].ev)
          THEN trace[i].ok
          ELSE AcceptedBefore(i) # {} =>
                 (trace[i].ok <=>
                    trace[i].t - trace[LastAcceptedBefore(i)].t >= Configured(trace[i].ev))

\* {"status": 0.25, "sensors": 0.5} with a button callback: status is gated at
\* one tick, sensors at two, and button is delivered
C4_Witness ==
    /\ options.throttle = MapThrottle({<<"status", 1>>, <<"sensors", 2>>})
    /\ options.callbacks = {"onStatus", "onSensors", "onButton"}
    /\ handlers["sensors"] = ThrottledHandler("onSensors")
    /\ gates["onSensors"].interval = 2
    /\ gates["onStatus"].interval = 1
    /\ Len(trace) = 3
    /\ trace[1] = Call("onStatus", "status", TRUE, 1, TRUE)
    /\ trace[2] = Call("onStatus", "status", TRUE, 1, FALSE)
    /\ trace[3] = Call("onButton", "button", FALSE, 0, TRUE)

\* C5: when the interval of an event is 0, negative or absent, the callback
\* itself is bound to the event, and every event of that kind invokes it.
C5_DirectBinding ==
    constructed =>
       \A s \in options.callbacks :
          (EventNameOf(s) # NoEvent /\ Unthrottled(EventNameOf(s))) =>
             /\ \E i \in 1..Len(registrations) :
                   registrations[i] = [ev |-> EventNameOf(s), handler |-> DirectHandler(s)]
             /\ \A i \in 1..Len(trace) :
                   trace[i].ev = EventNameOf(s) =>
                      (trace[i].slot = s /\ trace[i].ok /\ ~trace[i].read)

----------------------------------------------------------------------------
(* Properties of connect_to_socket *)

RECURSIVE SumSeq(_)
SumSeq(q) == IF q = <<>> THEN 0 ELSE Head(q) + SumSeq(Tail(q))

\* C6: with backoff b > 0, max backoff m >= b and every attempt failing, the
\* n-th sleep lasts min(b * 2^(n-1), m); the call raises after retries + 1
\* attempts and retries sleeps; b = 0.5 s, m = 4 s, retries = 4 sleeps
\* 0.5, 1, 2, 4 s and raises after the 5th attempt.
C6_BackoffSequence ==
    (backoff > 0 /\ max_backoff >= backoff /\ retries >= 0 /\ pc # "idle") =>
        /\ \A n \in 1..Len(sleeps) : sleeps[n] = Min(backoff * 2^(n - 1), max_backoff)
        /\ Len(sleeps) <= retries
        /\ pc = "raised" =>
              /\ outcome.kind = "raised"
              /\ Len(sleeps) = retries
              /\ attempts = retries + 1
        /\ (pc = "raised" /\ backoff = 1 /\ max_backoff = 8 /\ retries = 4) =>
              (sleeps = <<1, 2, 4, 8>> /\ attempts = 5)

C6_Witness ==
    /\ pc = "raised"
    /\ backoff = 1
    /\ max_backoff = 8
    /\ retries = 4
    /\ sleeps = <<1, 2, 4, 8>>
    /\ attempts = 5

\* C7: no sleep of the retry loop is longer than max_backoff, the first one
\* included, whatever retries, backoff and max_backoff are.
C7_CapHonored ==
    (backoff > 0 /\ max_backoff > 0) =>
        \A n \in 1..Len(sleeps) : sleeps[n] <= max_backoff

\* C8: one sleep follows each failed attempt that is retried and none follows
\* the success: a call that returns after k failures made k + 1 attempts and
\* k sleeps, with k <= retries; the call does not give up before attempt
\* retries + 1; with retries = 0 a failing first attempt raises after one
\* attempt and no sleep.
C8_StopsAtFirstSuccess ==
    /\ pc = "try" => (Len(sleeps) = attempts /\ attempt = attempts)
    /\ pc = "returned" =>
          /\ attempts = attempt + 1
          /\ Len(sleeps) = attempt
          /\ attempt <= Max(retries, 0)
    /\ (pc = "raised" /\ outcome.kind = "raised") => attempts > retries
    /\ (pc = "raised" /\ retries = 0) => (attempts = 1 /\ sleeps = <<>>)

\* two failures then a success with retries = 3, backoff = 0.5 s
C8_Witness ==
    /\ pc = "returned"
    /\ retries = 3
    /\ backoff = 1
    /\ attempts = 3
    /\ sleeps = <<1, 2>>

\* C9: a call returns only after a successful attempt; when all retries + 1
\* attempts failed, the error raised is that of the last attempt.
C9_RaisesLastError ==
    /\ pc = "returned" => (outcome = Returned /\ attempts = attempt + 1)
    /\ (pc = "raised" /\ attempts = attempt /\ attempts = Max(retries, 0) + 1) =>
          outcome = Raised(ErrorOfAttempt(attempts))

C9_Witness ==
    /\ pc = "raised"
    /\ retries = 2
    /\ attempts = 3
    /\ outcome = Raised(ErrorOfAttempt(3))

\* C10: a call makes at most max(retries, 0) + 1 attempts and sleeps at most
\* retries * max_backoff in total.
C10_Bounded ==
    /\ attempts <= Max(retries, 0) + 1
    /\ (retries >= 0 /\ max_backoff > 0 /\ backoff > 0) =>
          SumSeq(sleeps) <= retries * max_backoff

-----------------------------------------------------------------------------
-----------------------------------------------------------------------------
ActionFramesOf(frames) == SelectSeq(frames, LAMBDA f : f.event = "action")

SendsReturned == SelectSeq(sendLog, LAMBDA c : ~c.raised)

\* C12: send_action_socketio with a token outside ALLOWED_SOCKETIO_ACTIONS
\* (RESET is the one such member) raises and emits no frame, so every frame
\* on the "action" event carries a token of the allowlist.
C12_RejectsUnlisted ==
    /\ \A i \in 1..Len(sendLog) :
          ActionValue(sendLog[i].action) \notin ALLOWED_SOCKETIO_ACTIONS
              => sendLog[i].raised /\ sendLog[i].at = 0
    /\ \A i \in 1..Len(emitted) :
          emitted[i].event = "action"
              => emitted[i].payload \in ALLOWED_SOCKETIO_ACTIONS
    /\ Len(ActionFramesOf(emitted)) <= Len(SendsReturned)

\* RESET was sent and raised, next to a call that emitted its frame
C12_Witness ==
    /\ \E i \in 1..Len(sendLog) :
          sendLog[i].action = "RESET" /\ sendLog[i].raised
    /\ \E i \in 1..Len(sendLog) : ~sendLog[i].raised
    /\ Len(ActionFramesOf(emitted)) = 1

\* C13: send_action_socketio with an allowed action emits exactly one frame,
\* on event "action", whose payload is the token of the action, and asks for
\* no acknowledgement: it returns once the frame is handed to sio.emit.
C13_EmitsOneFrame ==
    /\ \A i \in 1..Len(sendLog) :
          ActionValue(sendLog[i].action) \in ALLOWED_SOCKETIO_ACTIONS
              => /\ ~sendLog[i].raised
                 /\ sendLog[i].at \in 1..Len(emitted)
                 /\ emitted[sendLog[i].at].event = "action"
                 /\ emitted[sendLog[i].at].payload
                        = ActionValue(sendLog[i].action)
                 /\ ~emitted[sendLog[i].at].ack
    /\ \A i, j \in 1..Len(sendLog) :
          (i # j /\ ~sendLog[i].raised /\ ~sendLog[j].raised)
              => sendLog[i].at # sendLog[j].at
    /\ Len(ActionFramesOf(emitted)) = Len(SendsReturned)

\* two different allowed actions were sent after a frame of another emitter
C13_Witness ==
    /\ Len(SendsReturned) = 2
    /\ SendsReturned[1].action # SendsReturned[2].action
    /\ emitted[1].event # "action"
    /\ SendsReturned[1].at = 2
    /\ SendsReturned[2].at = 3

-----------------------------------------------------------------------------
\* a get_shot_log call whose response was 200
LogCall200 ==
    /\ rest.op = "get_shot_log"
    /\ ~rest.resp.net
    /\ rest.resp.status = 200

\* C14: for a document D, get_shot_log returns D when the 200 body is the
\* zstd compression of D's JSON bytes (taken through the decompressor) and
\* when it is D's JSON bytes as they are; both paths give the same value.
C14_RoundTrip ==
    LogCall200 =>
        \A d \in Docs :
            /\ rest.resp.body = Dumps(d)
                   => rest.result = Value(d, FALSE)
            /\ rest.resp.body = Compress(Dumps(d))
                   => rest.result = Value(d, TRUE)

\* the compressed bytes of a two-item document were decoded to it
C14_Witness ==
    /\ LogCall200
    /\ rest.resp.body = Compress(Dumps(<<0, 1>>))
    /\ rest.result.kind = "value"
    /\ rest.result.doc = <<0, 1>>
    /\ rest.result.decompressed

\* the body opens with the magic number and is a compressed document that
\* was cut short or had a byte changed after the magic number
CorruptFrame(body) ==
    /\ HasMagic(body)
    /\ \E d \in Docs :
          /\ body \in Variants(Compress(Dumps(d)))
          /\ body # Compress(Dumps(d))

\* C15 as stated: every body that opens with the magic number and is
\* corrupt after it gives a returned decompression error, with no JSON
\* parsing. Calls that raise are left to C16.
C15_CorruptIsDecompressionError ==
    (LogCall200 /\ CorruptFrame(rest.resp.body)
         /\ rest.result.kind # "raised")
        => /\ rest.result.kind = "APIError"
           /\ rest.result.status = "Decompression Error"
           /\ ~rest.result.parsed

\* C15, amended: when the body opens with the magic number and the
\* decompressor rejects it, get_shot_log returns a failure tagged
\* "Decompression Error" that carries the decompressor's message, and does
\* not run json.loads.
C15_RejectedFrame ==
    (LogCall200 /\ HasMagic(rest.resp.body)
         /\ Decompress(rest.resp.body).kind = "ZstdError")
        => /\ rest.result.kind = "APIError"
           /\ rest.result.status = "Decompression Error"
           /\ rest.result.error = Decompress(rest.resp.body).msg
           /\ rest.result.decompressed
           /\ ~rest.result.parsed

\* a compressed document cut short inside its content was rejected
C15_Witness ==
    /\ LogCall200
    /\ CorruptFrame(rest.resp.body)
    /\ Len(rest.resp.body) > Len(Magic) + 1
    /\ rest.result.status = "Decompression Error"

\* the bytes json.loads is given for a 200 body that was not rejected by the
\* decompressor
BytesToParse(body) ==
    IF HasMagic(body) THEN Decompress(body).out ELSE body

\* C16: every 200 body whose bytes, after the decompression of a body with
\* the magic number, are not a JSON document gives a returned failure tagged
\* "JSON Parse Error" with the parser's message; nothing is raised.
C16_ParseErrorReturned ==
    (LogCall200
         /\ (HasMagic(rest.resp.body)
                => Decompress(rest.resp.body).kind = "ok")
         /\ Loads(BytesToParse(rest.resp.body)).kind # "value")
        => /\ rest.result.kind = "APIError"
           /\ rest.result.status = "JSON Parse Error"
           /\ rest.result.error = Loads(BytesToParse(rest.resp.body)).msg

\* C17: a non-200 status or a network error gives a returned failure that
\* carries a status when there is a response, that is not tagged as a
\* decompression or parse error, and for which neither the decompressor nor
\* json.loads ran on the body.
C17_TransportFailureReturned ==
    (rest.op = "get_shot_log"
         /\ (rest.resp.net \/ rest.resp.status # 200))
        => /\ rest.result.kind = "APIError"
           /\ ~rest.resp.net => rest.result.status # None
           /\ rest.result.status
                  \notin {"Decompression Error", "JSON Parse Error"}
           /\ ~rest.result.decompressed
           /\ ~rest.result.parsed

-----------------------------------------------------------------------------
\* a get_current_shot or get_last_shot call that got a response
ShotCall ==
    /\ rest.op \in {"get_current_shot", "get_last_shot"}
    /\ ~rest.resp.net

\* C19: get_current_shot and get_last_shot return None on a 200 response
\* whose JSON body is null, the decoded entry on a 200 response with a
\* record, and an APIError on a non-200 response; None is never returned
\* for a non-200 response.
C19_ThreeOutcomes ==
    ShotCall =>
        /\ (rest.resp.status = 200 /\ rest.resp.body.kind = "null")
               => rest.result = NoneResult
        /\ (rest.resp.status = 200 /\ rest.resp.body.kind = "record")
               => rest.result = Entry(rest.resp.body.id)
        /\ rest.resp.status # 200 => rest.result.kind = "APIError"
        /\ rest.result.kind = "None" => rest.resp.status = 200

\* get_last_shot got a non-200 response whose body is JSON null and returned
\* an APIError
C19_Witness ==
    /\ ShotCall
    /\ rest.op = "get_last_shot"
    /\ rest.resp.status = 404
    /\ rest.resp.body.kind = "null"
    /\ rest.result.kind = "APIError"
    /\ rest.result.status = "404"

-----------------------------------------------------------------------------
\* the entry of a listing whose name is lexically greatest
Greatest(l) ==
    CHOOSE e \in {l[i] : i \in 1..Len(l)} :
        \A i \in 1..Len(l) : l[i].name = e.name \/ LexLess(l[i].name, e.name)

\* a get_last_shot_log call that was given both listings, neither empty
LastLogCall ==
    /\ rest.op = "get_last_shot_log"
    /\ ~rest.dates.net /\ rest.dates.status = 200 /\ Len(rest.dates.body) > 0
    /\ ~rest.files.net /\ rest.files.status = 200 /\ Len(rest.files.body) > 0

\* C18: get_last_shot_log asks for the files of the bucket whose name is
\* lexically greatest, then for the file whose name is lexically greatest
\* there, and returns the decoded content of that file of that bucket,
\* whatever the order of the two listings.
C18_LatestByName ==
    LastLogCall =>
        LET d == Greatest(rest.dates.body).name
            f == Greatest(rest.files.body)
        IN  /\ rest.requests
                   = <<<<"files">>, <<"files", d>>, <<"files", d, f.url>>>>
            /\ rest.how = "plain"
                   => rest.result = Value(LogDoc(d, f.url), FALSE)
            /\ rest.how = "zstd"
                   => rest.result = Value(LogDoc(d, f.url), TRUE)
            /\ rest.how = "gone" => rest.result.kind = "APIError"

\* the greatest bucket "2" was listed after "12", the greatest file "21"
\* after "2", and the compressed content of file "21" of bucket "2" came back
C18_Witness ==
    /\ LastLogCall
    /\ rest.dates.body = <<HistoryFile(<<1, 2>>), HistoryFile(<<2>>)>>
    /\ rest.files.body = <<HistoryFile(<<2>>), HistoryFile(<<2, 1>>)>>
    /\ rest.how = "zstd"
    /\ rest.result.kind = "value"
    /\ rest.result.doc = <<2, 0, 2, 1>>

-----------------------------------------------------------------------------
\* C20: an arriving event either runs the callback at arrival with the
\* payload it came with (the gate accepted it) or is dropped for good (the
\* gate rejected it). In every state, so right after every arrival, the
\* callbacks have run once for each accepted arrival so far and for nothing
\* else, in arrival order, each with the payload of its arrival.
C20_PassOrDiscard ==
    /\ Len(received) = Cardinality({i \in 1..Len(trace) : trace[i].ok})
    /\ \A k \in 1..Len(received) :
          /\ received[k].payload \in 1..Len(trace)
          /\ trace[received[k].payload].ok
          /\ trace[received[k].payload].slot = received[k].slot
    /\ \A k, l \in 1..Len(received) :
          k < l => received[k].payload < received[l].payload

\* a throttled callback got the first and the third arrival; the second was
\* rejected by its gate
C20_Witness ==
    /\ Len(trace) = 3
    /\ \A i \in 1..3 : trace[i].read
    /\ trace[1].ok /\ ~trace[2].ok /\ trace[3].ok
    /\ Len(received) = 2
    /\ received[1].payload = 1
    /\ received[2].payload = 3

-----------------------------------------------------------------------------
\* C21: after construction every slot of ApiOptions that holds a callback
\* has had that callback, direct or wrapped, registered on the session.
C21_EverySlotRegistered ==
    constructed =>
       \A s \in options.callbacks :
          \E i \in 1..Len(registrations) : registrations[i].handler.slot = s

-----------------------------------------------------------------------------
\* the calls recorded on the standalone gate that were accepted
AcceptedCalls == {j \in 1..Len(trace) : trace[j].read /\ trace[j].ok}

\* C23: a call of should_process that returns false leaves _last_emit as it
\* was: the timestamp of the gate is the reading of the last accepted call
\* (0.0 when there is none), however many rejected calls came after it.
C23_RejectLeavesStamp ==
    gates["standalone"].made =>
        gates["standalone"].last_emit
            = IF AcceptedCalls = {} THEN 0
              ELSE trace[CHOOSE j \in AcceptedCalls :
                             \A k \in AcceptedCalls : k <= j].t

\* an accepted call at 2 was followed by two rejected calls, at 3 and at 2,
\* and the timestamp is still 2
C23_Witness ==
    /\ gates["standalone"].interval = 2
    /\ gates["standalone"].last_emit = 2
    /\ trace = <<Call("standalone", NoEvent, TRUE, 2, TRUE),
                 Call("standalone", NoEvent, TRUE, 3, FALSE),
                 Call("standalone", NoEvent, TRUE, 2, FALSE)>>

\* C24: a gate with interval <= 0 accepts every call and never writes
\* _last_emit, which stays at its initial 0.0.
C24_NoLimitNoState ==
    (gates["standalone"].made /\ gates["standalone"].interval <= 0)
        => /\ \A i \in 1..Len(trace) : trace[i].ok
           /\ gates["standalone"].last_emit = 0

-----------------------------------------------------------------------------
\* a listing request that gave no list: the network failed or the status
\* was not 200
ListingFailed(resp) == resp.net \/ resp.status # 200

ListingEmpty(resp) == ~ListingFailed(resp) /\ Len(resp.body) = 0

\* C25: get_last_shot_log asks for the dates, then the files, then the log,
\* and stops at the first step that gives nothing: after a failed or empty
\* dates listing it makes no other request, after a failed or empty files
\* listing it makes no log request; the error of a listing step is returned
\* as it is, and an empty listing gives an APIError with status "No Data".
C25_ShortCircuit ==
    rest.op = "get_last_shot_log" =>
        /\ Len(rest.requests) \in 1..3
        /\ rest.requests[1] = <<"files">>
        /\ \A k \in 2..Len(rest.requests) :
              /\ Len(rest.requests[k]) = k
              /\ SubSeq(rest.requests[k], 1, k - 1) = rest.requests[k - 1]
        /\ (ListingFailed(rest.dates) \/ ListingEmpty(rest.dates))
               => Len(rest.requests) = 1
        /\ (~ListingFailed(rest.dates) /\ ~ListingEmpty(rest.dates))
               => /\ Len(rest.requests) >= 2
                  /\ (ListingFailed(rest.files) \/ ListingEmpty(rest.files))
                         => Len(rest.requests) = 2
                  /\ (~ListingFailed(rest.files) /\ ~ListingEmpty(rest.files))
                         => Len(rest.requests) = 3
        /\ (ListingFailed(rest.dates) /\ ~rest.dates.net)
               => rest.result = ErrorFromResponse(rest.dates)
        /\ ListingEmpty(rest.dates)
               => rest.result.kind = "APIError" /\ rest.result.status = "No Data"
        /\ (Len(rest.requests) = 2 /\ ListingFailed(rest.files)
                /\ ~rest.files.net)
               => rest.result = ErrorFromResponse(rest.files)
        /\ (Len(rest.requests) = 2 /\ ListingEmpty(rest.files))
               => rest.result.kind = "APIError" /\ rest.result.status = "No Data"

\* the dates were listed, the files request got 404 with a JSON error, and
\* that error came back after two requests
C25_Witness ==
    /\ rest.op = "get_last_shot_log"
    /\ ~ListingFailed(rest.dates)
    /\ Len(rest.dates.body) = 2
    /\ ~rest.files.net
    /\ rest.files.status = 404
    /\ rest.files.body.kind = "object"
    /\ Len(rest.requests) = 2
    /\ rest.result.kind = "APIError"
    /\ rest.result.error = "not found"

-----------------------------------------------------------------------------
\* the reading a gate holds when call i arrives: that of the last accepted
\* call of the same slot before i, 0.0 when there is none
StampBefore(i) ==
    IF AcceptedBefore(i) = {} THEN 0 ELSE trace[LastAcceptedBefore(i)].t

\* the accepted calls of the gate of slot s
AcceptedOf(s) ==
    {j \in 1..Len(trace) : trace[j].slot = s /\ trace[j].read /\ trace[j].ok}

\* C26: each throttled subscription has a gate of its own. The decision for
\* an event is made from the earlier events of its own kind only, and the
\* timestamp of a gate is the reading of the last accepted event of its own
\* kind, whatever events of other kinds arrived in between.
C26_GatesIndependent ==
    /\ \A i \in 1..Len(trace) :
          trace[i].read =>
              (trace[i].ok <=>
                   trace[i].t - StampBefore(i) >= gates[trace[i].slot].interval)
    /\ \A s \in SlotSet :
          gates[s].made =>
              gates[s].last_emit
                  = IF AcceptedOf(s) = {} THEN 0
                    ELSE trace[CHOOSE j \in AcceptedOf(s) :
                                   \A k \in AcceptedOf(s) : k <= j].t

\* with every kind throttled at 2: status accepted at 2, sensors accepted at
\* 3, status rejected at 3; each gate holds the reading of its own kind
C26_Witness ==
    /\ trace = <<Call("onStatus", "status", TRUE, 2, TRUE),
                 Call("onSensors", "sensors", TRUE, 3, TRUE),
                 Call("onStatus", "status", TRUE, 3, FALSE)>>
    /\ gates["onStatus"].last_emit = 2
    /\ gates["onSensors"].last_emit = 3

\* C28: the callback slots that are set are bound to event names distinct
\* from each other, and after construction each of them is still the
\* handler of its event: no registration has replaced another.
C28_DistinctEventNames ==
    constructed =>
       \A s1, s2 \in options.callbacks :
          (s1 # s2 /\ Bound(options, s1) /\ Bound(options, s2))
              => /\ EventNameOf(s1) # EventNameOf(s2)
                 /\ handlers[EventNameOf(s1)].slot = s1
                 /\ handlers[EventNameOf(s2)].slot = s2

-----------------------------------------------------------------------------
\* C22: the registrations are made once, by the construction of the client,
\* before any connect call; no later step changes them. A session that is
\* connected has all of them bound, and a connect attempt that fails leaves
\* the session as it was, not connected.
C22_RegisteredOnce ==
    [][/\ (registrations' # registrations \/ handlers' # handlers
              \/ options' # options)
            => (~constructed /\ constructed' /\ pc = "idle" /\ ~connected)
       /\ connected'
            => /\ constructed'
               /\ registrations' = RegisterCalls(options')
               /\ handlers' = HandlersAfter(registrations')
       /\ (pc = "try" /\ pc' # "returned") => connected' = connected
       /\ (pc = "try" /\ pc' = "raised" /\ ~connected) => ~connected']_vars

\* a connect call used up its retry and raised; the session is not connected
\* and the registration made at construction is still there, also after an
\* action was sent and a log fetched
C22_Witness ==
    /\ pc = "raised"
    /\ attempts = 2
    /\ ~connected
    /\ Len(sendLog) > 0
    /\ rest.op = "get_shot_log"
    /\ registrations = RegisterCalls(LifeOptions)
    /\ handlers["status"] = ThrottledHandler("onStatus")

\* C29: disconnect_socket and connect_to_socket leave the gates alone. Each
\* gate holds the reading of the last accepted event of its kind, also after
\* a disconnect and a reconnect, so an event is accepted only when at least
\* the interval has passed since the last accepted event of its kind, even
\* when that one arrived on an earlier session.
C29_GateSurvivesReconnect ==
    /\ \A s \in SlotSet :
          gates[s].made =>
              gates[s].last_emit
                  = IF AcceptedOf(s) = {} THEN 0
                    ELSE trace[CHOOSE j \in AcceptedOf(s) :
                                   \A k \in AcceptedOf(s) : k <= j].t
    /\ \A i \in 1..Len(trace) :
          (trace[i].read /\ trace[i].ok /\ AcceptedBefore(i) # {})
              => trace[i].t - trace[LastAcceptedBefore(i)].t
                     >= gates[trace[i].slot].interval

\* an event was accepted at 2, the session was disconnected and connected
\* again, and the first event of the new session, at 3, was rejected
C29_Witness ==
    /\ connected
    /\ discAt = 1
    /\ Len(trace) = 2
    /\ trace[1] = Call("onStatus", "status", TRUE, 2, TRUE)
    /\ trace[2] = Call("onStatus", "status", TRUE, 3, FALSE)
    /\ gates["onStatus"].last_emit = 2

\* the distance between two clock readings
Apart(a, b) == IF a >= b THEN a - b ELSE b - a

\* C27: when two threads run should_process on the same gate with their
\* statements interleaved, no two accepted calls have clock readings closer
\* to each other than the gate's interval.
C27_RaceKeepsSpacing ==
    \A i, j \in DOMAIN trace :
        (i < j /\ trace[i].ok /\ trace[j].ok)
            => Apart(trace[i].t, trace[j].t) >= gates["standalone"].interval

\* the reading from which the gate accepts again
OpensAt == gates["standalone"].last_emit + gates["standalone"].interval

\* the call in progress was accepted exactly when its reading had reached
\* _last_emit + interval
DiscardedUntilOpen ==
    /\ threads[1].pc = "write" => threads[1].now >= OpensAt
    /\ (threads[1].pc = "return" /\ ~threads[1].ok) => threads[1].now < OpensAt

\* C30: a throttled subscription is never closed forever. While events keep
\* arriving and the clock keeps growing, from every state of the gate whose
\* opening time the clock can still reach, a later event is accepted; and an
\* event is discarded exactly while its reading is below _last_emit +
\* interval, also after the clock was set back below _last_emit.
C30_NeverClosedForever ==
    /\ []DiscardedUntilOpen
    /\ (threads[1].pc = "idle" /\ OpensAt <= LiveTop)
           ~> (threads[1].pc = "return" /\ threads[1].ok)

\* the clock was set back below _last_emit = 3, and the event that then read
\* 1 was discarded
C30_Witness ==
    /\ clock.back
    /\ gates["standalone"].interval = 1
    /\ gates["standalone"].last_emit = 3
    /\ threads[1] = [pc |-> "return", now |-> 1, ok |-> FALSE]

====
